---- MODULE Spec2Model ----
(***************************************************************************)
(* The AI-orchestration pipeline of myvoicepost (transcription ->          *)
(* translate/polish -> persistence), its retry wrapper and the storage     *)
(* back ends, as a state machine.                                          *)
(*                                                                         *)
(* JavaScript strings are sequences of one-character strings, so that      *)
(* includes(), toLowerCase() and trim() are computed, not assumed.         *)
(***************************************************************************)
EXTENDS Integers, Sequences, FiniteSets, TLC

(* ------------------------------------------------------------------ *)
(* Bounds of the model                                                  *)
(* ------------------------------------------------------------------ *)
NumPipelines == 2      \* request slots
NumLive == 1           \* requests served under Spec
NumRequests == 2       \* signup / createUser calls in flight
NumClients == 2        \* saved-text requests in flight
NumProcs == 2          \* server processes
MaxSaved == 2          \* SavedText rows ever created
MaxArtifacts == 3      \* translations ever created in the process stores
MaxTime == 3           \* the clock's last millisecond

(* ------------------------------------------------------------------ *)
(* Program constants: the options every pRetry call site passes        *)
(* ------------------------------------------------------------------ *)
retries == 5
minTimeout == 2000
maxTimeout == 30000
factor == 2

(* ------------------------------------------------------------------ *)
(* Strings                                                              *)
(* ------------------------------------------------------------------ *)
LowerLetters ==
  <<"a", "b", "c", "d", "e", "f", "g", "h", "i", "j", "k", "l", "m",
    "n", "o", "p", "q", "r", "s", "t", "u", "v", "w", "x", "y", "z">>
UpperLetters ==
  <<"A", "B", "C", "D", "E", "F", "G", "H", "I", "J", "K", "L", "M",
    "N", "O", "P", "Q", "R", "S", "T", "U", "V", "W", "X", "Y", "Z">>

\* String.prototype.toLowerCase, one character
LowerChar(c) ==
  IF \E i \in 1..26 : UpperLetters[i] = c
  THEN LowerLetters[CHOOSE i \in 1..26 : UpperLetters[i] = c]
  ELSE c

toLowerCase(s) == [i \in 1..Len(s) |-> LowerChar(s[i])]

\* String.prototype.includes
includes(s, sub) ==
  \E i \in 0..(Len(s) - Len(sub)) : SubSeq(s, i + 1, i + Len(sub)) = sub

WhiteSpace == {" ", "\t", "\n"}

RECURSIVE trimStart(_)
trimStart(s) ==
  IF s # <<>> /\ Head(s) \in WhiteSpace THEN trimStart(Tail(s)) ELSE s

RECURSIVE trimEnd(_)
trimEnd(s) ==
  IF s # <<>> /\ s[Len(s)] \in WhiteSpace
  THEN trimEnd(SubSeq(s, 1, Len(s) - 1))
  ELSE s

\* String.prototype.trim
trim(s) == trimEnd(trimStart(s))

(* ------------------------------------------------------------------ *)
(* Errors and their classification                                      *)
(* ------------------------------------------------------------------ *)
\* An error thrown by the AI SDK or by the runtime: its class name, the HTTP
\* status the SDK attaches (0: none) and its message.
Err(name, status, message) ==
  [name |-> name, status |-> status, message |-> message]

NoError == Err(<<>>, 0, <<>>)

\* String(error) for an Error object: "Name" when the message is empty
StringOfError(e) ==
  IF e.message = <<>> THEN e.name ELSE e.name \o <<":", " ">> \o e.message

\* error?.message || String(error)
errorMsg(e) == IF e.message # <<>> THEN e.message ELSE StringOfError(e)

Str429 == <<"4", "2", "9">>
StrRATELIMIT ==
  <<"R", "A", "T", "E", "L", "I", "M", "I", "T", "_",
    "E", "X", "C", "E", "E", "D", "E", "D">>
StrQuota == <<"q", "u", "o", "t", "a">>
StrRateLimit == <<"r", "a", "t", "e", " ", "l", "i", "m", "i", "t">>

isRateLimitError(error) ==
  \/ includes(errorMsg(error), Str429)
  \/ includes(errorMsg(error), StrRATELIMIT)
  \/ includes(toLowerCase(errorMsg(error)), StrQuota)
  \/ includes(toLowerCase(errorMsg(error)), StrRateLimit)

(* ------------------------------------------------------------------ *)
(* JavaScript values and JSON                                           *)
(* ------------------------------------------------------------------ *)
\* The value of a property that is not there.  It is no character sequence,
\* so it differs from every string.
Undefined == <<"undefined">>

\* x || y picks y exactly when x is falsy: undefined or the empty string
Truthy(x) == x # Undefined /\ x # <<>>
OrElse(x, y) == IF Truthy(x) THEN x ELSE y

\* (mutant of IsBlank: the test without trim())
IsBlank_NoTrim(s) == ~Truthy(s)

\* the routes' test  !originalText || originalText.trim() === ""
IsBlank(s) == ~Truthy(s) \/ trim(s) = <<>>

\* A JSON object with the two fields the prompts ask for (Undefined: absent)
Obj(tt, pt) == [translatedText |-> tt, polishedText |-> pt]
NoFields == Obj(Undefined, Undefined)

\* What JSON.parse yields: null, a number/string/boolean/array, or an object
JsValue(type, obj) == [type |-> type, obj |-> obj]

\* response.text of a generateContent call, by what JSON.parse makes of it:
\*   "empty"  the empty string or undefined      "null"    the text null
\*   "syntax" text that is not JSON (raw)        "scalar"  a number, string, array
\*   "object" an object with fields obj
ResponseText(kind, obj, raw) == [kind |-> kind, obj |-> obj, raw |-> raw]
NoResponse == ResponseText("none", NoFields, <<>>)

\* The result of evaluating a piece of code: it returns a value or throws.
\* abort marks an error wrapped in p-retry's AbortError.
NoValue == [text |-> Undefined, translatedText |-> Undefined, polishedText |-> Undefined]
Return(v) == [kind |-> "return", value |-> v, error |-> NoError, abort |-> FALSE]
Throw(e) == [kind |-> "throw", value |-> NoValue, error |-> e, abort |-> FALSE]

StrUnexpectedToken ==
  <<"U", "n", "e", "x", "p", "e", "c", "t", "e", "d", " ",
    "t", "o", "k", "e", "n", " ">>
StrCannotRead ==
  <<"C", "a", "n", "n", "o", "t", " ", "r", "e", "a", "d", " ",
    "p", "r", "o", "p", "e", "r", "t", "i", "e", "s", " ",
    "o", "f", " ", "n", "u", "l", "l">>
StrSyntaxError == <<"S", "y", "n", "t", "a", "x", "E", "r", "r", "o", "r">>
StrTypeError == <<"T", "y", "p", "e", "E", "r", "r", "o", "r">>

\* V8 quotes the offending text in the message of JSON.parse's SyntaxError
SyntaxErrorOf(raw) == Err(StrSyntaxError, 0, StrUnexpectedToken \o raw)
NullTypeError == Err(StrTypeError, 0, StrCannotRead)

\* response.text || "{}"
OrEmptyObject(t) ==
  IF t.kind = "empty" THEN ResponseText("object", NoFields, <<>>) ELSE t

\* JSON.parse(text): [ok, value, error]
JSONparse(t) ==
  CASE t.kind = "syntax" ->
         [ok |-> FALSE, value |-> JsValue("null", NoFields), error |-> SyntaxErrorOf(t.raw)]
    [] t.kind = "null" ->
         [ok |-> TRUE, value |-> JsValue("null", NoFields), error |-> NoError]
    [] t.kind = "scalar" ->
         [ok |-> TRUE, value |-> JsValue("scalar", NoFields), error |-> NoError]
    [] OTHER ->
         [ok |-> TRUE, value |-> JsValue("object", t.obj), error |-> NoError]

\* safeJsonParse(text, fallback): the fallback only when JSON.parse throws
safeJsonParse(t, fallback) ==
  IF JSONparse(t).ok
  THEN [ok |-> TRUE, value |-> JSONparse(t).value, error |-> NoError]
  ELSE [ok |-> TRUE, value |-> JsValue("object", fallback), error |-> NoError]

\* result.polishedText / result.translatedText: reading a property of null
\* throws a TypeError, of a number or string yields undefined
ReadsThrow(v) == v.type = "null"
Prop(v, f) == IF v.type = "object" THEN v.obj[f] ELSE Undefined

(* ------------------------------------------------------------------ *)
(* The three copies of the AI stage                                     *)
(* ------------------------------------------------------------------ *)
\*   "gemini"  pRetry + safeJsonParse     (server/gemini.ts 1-312, api/index.ts)
\*   "legacy"  pRetry + bare JSON.parse   (server/storage.ts 147-400)
\*   "openai"  no retry, bare JSON.parse  (server/gemini.ts 315-446)
Variants == {"gemini", "legacy", "openai"}

\* the parse step of a transform, as each copy does it
ParseResponse(variant, t, fallback) ==
  IF variant = "gemini"
  THEN safeJsonParse(OrEmptyObject(t), fallback)
  ELSE JSONparse(OrEmptyObject(t))

\* polishText after the model answered t:  return result.polishedText || text
polishResult(variant, t, text) ==
  LET parsed == ParseResponse(variant, t, Obj(Undefined, text)) IN
  IF ~parsed.ok THEN Throw(parsed.error)
  ELSE IF ReadsThrow(parsed.value) THEN Throw(NullTypeError)
  ELSE Return([text |-> Undefined,
               translatedText |-> Undefined,
               polishedText |-> OrElse(Prop(parsed.value, "polishedText"), text)])

\* (mutant of samePolishResult: translatedText taken from the model's answer)
samePolishResult_ModelText(variant, t, text) ==
  LET parsed == ParseResponse(variant, t, Obj(Undefined, text)) IN
  IF ~parsed.ok THEN Throw(parsed.error)
  ELSE IF ReadsThrow(parsed.value) THEN Throw(NullTypeError)
  ELSE Return([text |-> Undefined,
               translatedText |-> OrElse(Prop(parsed.value, "translatedText"), text),
               polishedText |-> OrElse(Prop(parsed.value, "polishedText"), text)])

\* translateAndPolish, sourceLanguage === targetLanguage
samePolishResult(variant, t, text) ==
  LET parsed == ParseResponse(variant, t, Obj(Undefined, text)) IN
  IF ~parsed.ok THEN Throw(parsed.error)
  ELSE IF ReadsThrow(parsed.value) THEN Throw(NullTypeError)
  ELSE Return([text |-> Undefined,
               translatedText |-> text,
               polishedText |-> OrElse(Prop(parsed.value, "polishedText"), text)])

\* translateAndPolish, two languages
translateResult(variant, t, text) ==
  LET parsed == ParseResponse(variant, t, Obj(text, text)) IN
  IF ~parsed.ok THEN Throw(parsed.error)
  ELSE IF ReadsThrow(parsed.value) THEN Throw(NullTypeError)
  ELSE Return([text |-> Undefined,
               translatedText |-> OrElse(Prop(parsed.value, "translatedText"), text),
               polishedText |->
                 OrElse(Prop(parsed.value, "polishedText"),
                        OrElse(Prop(parsed.value, "translatedText"), text))])

\* (mutant of catchBlock: the error is rethrown as it is, never as AbortError)
catchBlock_Rethrow(c) == c

\* the catch block of every pRetry callback:
\*   if (isRateLimitError(error)) throw error; throw new AbortError(error)
catchBlock(c) ==
  IF c.kind = "throw"
  THEN [c EXCEPT !.abort = ~isRateLimitError(c.error)]
  ELSE c

\* An answer of the AI service to one call: a response text or an error
AiOk(t) == [ok |-> TRUE, text |-> t, error |-> NoError]
AiFail(e) == [ok |-> FALSE, text |-> NoResponse, error |-> e]

\* the body of transcribeAudio:  return response.text || ""  (Gemini copies),
\* return transcription.text  (OpenAI copy)
transcribeBody(variant, ans) ==
  IF ans.ok
  THEN Return([text |-> IF variant = "openai" THEN ans.text.raw
                        ELSE OrElse(ans.text.raw, <<>>),
               translatedText |-> Undefined,
               polishedText |-> Undefined])
  ELSE Throw(ans.error)

\* the body of a transform callback, by mode
transformBody(variant, mode, ans, text) ==
  IF ~ans.ok THEN Throw(ans.error)
  ELSE CASE mode = "polish" -> polishResult(variant, ans.text, text)
         [] mode = "same" -> samePolishResult(variant, ans.text, text)
         [] OTHER -> translateResult(variant, ans.text, text)

\* One attempt of a stage's unit of work: the Gemini copies run the body inside
\* try/catch, the OpenAI copy lets every error escape as it is.
attempt(variant, c) == IF variant = "openai" THEN c ELSE catchBlock(c)

(* ------------------------------------------------------------------ *)
(* p-retry                                                              *)
(* ------------------------------------------------------------------ *)
Min(a, b) == IF a < b THEN a ELSE b

\* (mutant of Timeout: the exponent counts from 1)
Timeout_OffByOne(n) == Min(minTimeout * factor ^ n, maxTimeout)

\* (mutant of Timeout: maxTimeout is not applied)
Timeout_Uncapped(n) == minTimeout * factor ^ (n - 1)

\* the delay p-retry waits before retry number n (n >= 1), randomize off:
\* min(minTimeout * factor^(n-1), maxTimeout)
Timeout(n) == Min(minTimeout * factor ^ (n - 1), maxTimeout)

\* One run of a stage under the retry wrapper.
\*   calls   how often the unit of work was invoked
\*   delays  the delays waited (scheduled) so far, in order
\*   hist    per invocation "ok", "transient" or "fatal": what the classifier
\*           says of the error the AI stage raised
\*   status  "pending" (an invocation is due), "resolved", "rejected"
\*   aborted the rejection came from an AbortError
\*   answer  the AI service's last answer;  value  the resolved value
NewRun(stage) ==
  [stage |-> stage, calls |-> 0, delays |-> <<>>, hist |-> <<>>,
   status |-> "pending", aborted |-> FALSE, err |-> NoError,
   answer |-> AiOk(NoResponse), value |-> NoValue]

Outcome(c) ==
  IF c.kind = "return" THEN "ok"
  ELSE IF isRateLimitError(c.error) THEN "transient" ELSE "fatal"

\* (mutant of retryLeft: one retry more than configured)
retryLeft_OneMore(n) == n <= retries + 1

\* whether p-retry schedules another attempt after failed attempt number n
retryLeft(n) == n <= retries

\* pRetry(fn, {retries, minTimeout, maxTimeout, factor}) after invocation
\* number r.calls + 1 of fn completed with c
pRetryStep(r, c, ans) ==
  LET n == r.calls + 1
      seen == [r EXCEPT !.calls = n, !.hist = Append(@, Outcome(c)),
                        !.answer = ans, !.err = c.error]
  IN
  IF c.kind = "return"
  THEN [seen EXCEPT !.status = "resolved", !.value = c.value]
  ELSE IF c.abort
  THEN [seen EXCEPT !.status = "rejected", !.aborted = TRUE]
  ELSE IF retryLeft(n)
  THEN [seen EXCEPT !.delays = Append(@, Timeout(n))]
  ELSE [seen EXCEPT !.status = "rejected"]

\* the OpenAI copy awaits the call directly: one invocation, no retry
directStep(r, c, ans) ==
  LET seen == [r EXCEPT !.calls = r.calls + 1, !.hist = Append(@, Outcome(c)),
                        !.answer = ans, !.err = c.error]
  IN
  IF c.kind = "return"
  THEN [seen EXCEPT !.status = "resolved", !.value = c.value]
  ELSE [seen EXCEPT !.status = "rejected"]

stageStep(variant, r, c, ans) ==
  IF variant = "openai"
  THEN directStep(r, c, ans)
  ELSE pRetryStep(r, attempt(variant, c), ans)

(* ------------------------------------------------------------------ *)
(* The environment: what the AI service may answer                      *)
(* ------------------------------------------------------------------ *)
StrApiError == <<"A", "p", "i", "E", "r", "r", "o", "r">>

\* a rate-limit answer and a permanent failure of the AI service
ErrRate == Err(StrApiError, 429, <<"4", "2", "9", " ", "b", "u", "s", "y">>)
ErrBad == Err(StrApiError, 400, <<"b", "a", "d">>)
\* the same without a message, for which the routes have a fallback text
StrQuotaError == <<"Q", "u", "o", "t", "a", "E", "r", "r", "o", "r">>
ErrRateBare == Err(StrQuotaError, 429, <<>>)
ErrBadBare == Err(StrApiError, 500, <<>>)
AiErrors == {ErrRate, ErrBad, ErrRateBare, ErrBadBare}

TextHi == <<"h", "i">>
TextHiPadded == <<" ", "h", "i">>
TextSpaces == <<" ", "\n">>
TextT == <<"T">>
TextP == <<"P">>

Transcript(raw) == ResponseText("text", NoFields, raw)

\* what a transcription call may answer
TranscribeAnswers ==
  {AiOk(Transcript(raw)) : raw \in {Undefined, <<>>, TextSpaces, TextHi}}
    \cup {AiFail(e) : e \in AiErrors}

\* what a transform call may answer: any response text, or an error
ResponseTexts(mode) ==
  {ResponseText("empty", NoFields, <<>>),
   ResponseText("null", NoFields, <<>>),
   ResponseText("scalar", NoFields, <<>>),
   ResponseText("syntax", NoFields, <<"x">>),
   ResponseText("syntax", NoFields, StrQuota)}
    \cup {ResponseText("object", Obj(tt, pt), <<>>) :
            tt \in (IF mode = "polish" THEN {Undefined} ELSE {Undefined, <<>>, TextT}),
            pt \in {Undefined, <<>>, TextP}}

TransformAnswers(mode) ==
  {AiOk(t) : t \in ResponseTexts(mode)} \cup {AiFail(e) : e \in AiErrors}

\* the text a text endpoint may be given
InputTexts == {<<>>, TextSpaces, TextHi, TextHiPadded}

(* ------------------------------------------------------------------ *)
(* State                                                                *)
(* ------------------------------------------------------------------ *)
VARIABLES
  variant,        \* which copy of the AI stage this deployment runs
  env,            \* the run's setting: live, the request slots in use, and
                  \* faulty, whether the AI service may raise errors, and
                  \* down, whether it raises an error on every call
  pipeline,       \* pipeline[p]: one request being served
  translations,   \* the Artifact store: Map values in insertion order
  nextId,         \* stands for randomUUID(): the next fresh id
  probe,          \* one error handed to the classifier, and its verdict
  backend,        \* the storage back end: "mem" (MemStorage) or "durable"
  users,          \* the User rows, in insertion order
  signup,         \* signup[r]: one signup / createUser call being served
  savedTexts,     \* the SavedText rows, in insertion order
  session,        \* session[c]: one saved-text request of a caller
  procs,          \* procs[k]: the storage instance of server process k
  clock           \* now: Date.now();  uuid: the next fresh randomUUID()

aiVars == <<variant, env, pipeline, translations, nextId>>
authVars == <<backend, users, signup>>
savedVars == <<savedTexts, session>>
storeVars == <<procs, clock>>
vars ==
  <<variant, env, pipeline, translations, nextId, probe, backend, users, signup,
    savedTexts, session, procs, clock>>

Pipelines == 1..NumPipelines

\* mode: "polish" (polishText), "same" / "diff" (translateAndPolish with equal /
\* different languages);  input: "audio" or "text";  http, body: the status
\* and the error text of the response;  stores: the calls of
\* storage.createTranslation made so far
IdlePipeline ==
  [pc |-> "Idle", mode |-> "polish", input |-> "audio",
   originalText |-> Undefined, translatedText |-> Undefined,
   polishedText |-> Undefined, run |-> NewRun("none"),
   http |-> 0, body |-> <<>>, artifact |-> 0, stores |-> 0]

\* the endpoints each copy has
Modes(v) == IF v = "openai" THEN {"same", "diff"} ELSE {"polish", "same", "diff"}
Inputs(v) == IF v = "openai" THEN {"audio"} ELSE {"audio", "text"}

\* the answers the AI service may give in this run
Allowed(answers) ==
  IF env.down THEN {a \in answers : ~a.ok}
  ELSE IF env.faulty THEN answers
  ELSE {a \in answers : a.ok /\ a.text.kind \in {"text", "object"}}

\* the classifier's probe: nothing handed over yet
IdleProbe == [pc |-> "none", error |-> NoError, transient |-> FALSE]

\* a signup / createUser call not yet made
\*   kind "route": POST /api/auth/signup;  "direct": storage.createUser
Requests == 1..NumRequests
IdleSignup ==
  [pc |-> "Idle", kind |-> "route", username |-> "", email |-> "",
   http |-> 0, row |-> 0]

\* a saved-text request not yet made
\*   caller: the userId of the session (0: not signed in)
\*   bodyUserId: the userId in the request body (0: none)
\*   found: what the storage call returned (NoRow: undefined)
\*   body: the row in the response (NoRow: none)
Clients == 1..NumClients
NoRow == [id |-> 0, userId |-> 0, text |-> <<>>]
IdleSession ==
  [pc |-> "Idle", op |-> "none", caller |-> 0, bodyUserId |-> 0, id |-> 0,
   found |-> NoRow, deleted |-> FALSE, http |-> 0, body |-> NoRow]

\* a server process whose storage instance was just constructed
Processes == 1..NumProcs
IdleProc ==
  [translations |-> <<>>, op |-> "none", query |-> Undefined, arg |-> 0,
   reply |-> <<>>]

\* no SavedText row, no saved-text request, fresh server processes
NoSaved ==
  /\ savedTexts = <<>>
  /\ session = [c \in Clients |-> IdleSession]
NoStore ==
  /\ procs = [k \in Processes |-> IdleProc]
  /\ clock = [now |-> 1, uuid |-> 1]

\* the state in which no user exists and no signup is under way
NoAuth ==
  /\ backend = "durable"
  /\ users = <<>>
  /\ signup = [r \in Requests |-> IdleSignup]

Init ==
  /\ variant \in Variants
  /\ env = [live |-> 1..NumLive, faulty |-> TRUE, down |-> FALSE]
  /\ pipeline = [p \in Pipelines |-> IdlePipeline]
  /\ translations = <<>>
  /\ nextId = 1
  /\ probe = IdleProbe
  /\ NoAuth
  /\ NoSaved
  /\ NoStore

(* ------------------------------------------------------------------ *)
(* The route handlers, one action per step between two awaits           *)
(* ------------------------------------------------------------------ *)
\* A speech endpoint up to its first await: configuration, schema and file
\* checks, then transcribeAudio is called.
StartSpeech(p) ==
  /\ p \in env.live
  /\ pipeline[p].pc = "Idle"
  /\ "audio" \in Inputs(variant)
  /\ \E mode \in Modes(variant), valid \in BOOLEAN :
       pipeline' = [pipeline EXCEPT ![p] =
         IF valid
         THEN [@ EXCEPT !.pc = "Transcribing", !.mode = mode, !.input = "audio",
                        !.run = NewRun("transcribe")]
         ELSE [@ EXCEPT !.pc = "Rejected", !.mode = mode, !.input = "audio",
                        !.http = 400]]
  /\ UNCHANGED <<variant, env, translations, nextId>>
  /\ UNCHANGED <<probe, authVars, savedVars, storeVars>>

\* A text endpoint up to its first await: text: z.string().min(1), then the
\* transform is called on the text as given.
StartText(p) ==
  /\ p \in env.live
  /\ pipeline[p].pc = "Idle"
  /\ "text" \in Inputs(variant)
  /\ \E mode \in Modes(variant), text \in InputTexts :
       pipeline' = [pipeline EXCEPT ![p] =
         IF Len(text) >= 1
         THEN [@ EXCEPT !.pc = "Transforming", !.mode = mode, !.input = "text",
                        !.originalText = text, !.run = NewRun("transform")]
         ELSE [@ EXCEPT !.pc = "Rejected", !.mode = mode, !.input = "text",
                        !.http = 400]]
  /\ UNCHANGED <<variant, env, translations, nextId>>
  /\ UNCHANGED <<probe, authVars, savedVars, storeVars>>

StrFailedToProcess ==
  <<"F", "a", "i", "l", "e", "d", " ", "t", "o", " ",
    "p", "r", "o", "c", "e", "s", "s">>

\* the routes' catch:  res.status(500).json({ error: error.message || "Failed
\* to process ..." });  p-retry rejects with the error the callback threw
\* (for an AbortError, the error it wraps)
failBody(error) == OrElse(error.message, StrFailedToProcess)

\* (mutant of afterTranscribe: the transcript is passed on unchecked)
afterTranscribe_Unchecked(q, r) ==
  CASE r.status = "pending" -> [q EXCEPT !.run = r]
    [] r.status = "rejected" ->
         [q EXCEPT !.run = r, !.pc = "Failed", !.http = 500,
                   !.body = failBody(r.err)]
    [] OTHER -> [q EXCEPT !.run = r, !.pc = "Transforming",
                          !.originalText = r.value.text]

\* (mutant of afterTranscribe: a blank transcript is asked for again)
afterTranscribe_AskAgain(q, r) ==
  CASE r.status = "pending" -> [q EXCEPT !.run = r]
    [] r.status = "rejected" ->
         [q EXCEPT !.run = r, !.pc = "Failed", !.http = 500,
                   !.body = failBody(r.err)]
    [] OTHER ->
         IF IsBlank(r.value.text)
         THEN [q EXCEPT !.run = NewRun("transcribe")]
         ELSE [q EXCEPT !.run = r, !.pc = "Transforming",
                        !.originalText = r.value.text]

\* what the route does once transcribeAudio settled with run r
afterTranscribe(q, r) ==
  CASE r.status = "pending" -> [q EXCEPT !.run = r]
    [] r.status = "rejected" ->
         [q EXCEPT !.run = r, !.pc = "Failed", !.http = 500,
                   !.body = failBody(r.err)]
    [] OTHER ->
         IF IsBlank(r.value.text)
         THEN [q EXCEPT !.run = r, !.pc = "EmptyTranscript", !.http = 400]
         ELSE [q EXCEPT !.run = r, !.pc = "Transforming",
                        !.originalText = r.value.text]

\* One invocation of the transcription call returns or throws.
TranscribeAttempt(p) ==
  /\ pipeline[p].pc = "Transcribing"
  /\ \E ans \in Allowed(TranscribeAnswers) :
       pipeline' = [pipeline EXCEPT ![p] =
         afterTranscribe(@, stageStep(variant, @.run,
                                      transcribeBody(variant, ans), ans))]
  /\ UNCHANGED <<variant, env, translations, nextId>>
  /\ UNCHANGED <<probe, authVars, savedVars, storeVars>>

\* (mutant of afterTransform: a rejected transform is swallowed and the
\* request goes on to the store with what it has)
afterTransform_Swallow(q, r) ==
  IF r.status = "pending" THEN [q EXCEPT !.run = r]
  ELSE [q EXCEPT !.run = r, !.pc = "Persisting",
                 !.translatedText = q.originalText,
                 !.polishedText = q.originalText]

\* (mutant of afterTransform: a polish route stores what the transform returned)
afterTransform_ModelText(q, r) ==
  CASE r.status = "pending" -> [q EXCEPT !.run = r]
    [] r.status = "rejected" ->
         [q EXCEPT !.run = r, !.pc = "Failed", !.http = 500,
                   !.body = failBody(r.err)]
    [] OTHER ->
         [q EXCEPT !.run = r, !.pc = "Persisting",
                   !.translatedText = r.value.translatedText,
                   !.polishedText = r.value.polishedText]

\* what the route does once polishText / translateAndPolish settled with run r;
\* a polish route stores translatedText: originalText
afterTransform(q, r) ==
  CASE r.status = "pending" -> [q EXCEPT !.run = r]
    [] r.status = "rejected" ->
         [q EXCEPT !.run = r, !.pc = "Failed", !.http = 500,
                   !.body = failBody(r.err)]
    [] OTHER ->
         [q EXCEPT !.run = r, !.pc = "Persisting",
                   !.translatedText =
                     IF q.mode = "polish" THEN q.originalText
                     ELSE r.value.translatedText,
                   !.polishedText = r.value.polishedText]

\* the transform stage starts its own run under the retry wrapper
transformRun(q) == IF q.run.stage = "transform" THEN q.run ELSE NewRun("transform")

\* One invocation of the transform call returns or throws.
TransformAttempt(p) ==
  /\ pipeline[p].pc = "Transforming"
  /\ \E ans \in Allowed(TransformAnswers(pipeline[p].mode)) :
       pipeline' = [pipeline EXCEPT ![p] =
         afterTransform(@, stageStep(variant, transformRun(@),
                                     transformBody(variant, @.mode, ans,
                                                   @.originalText), ans))]
  /\ UNCHANGED <<variant, env, translations, nextId>>
  /\ UNCHANGED <<probe, authVars, savedVars, storeVars>>

\* storage.createTranslation (translations.set in api/index.ts)
createTranslation(q, id, p) ==
  [id |-> id, pid |-> p, originalText |-> q.originalText,
   translatedText |-> q.translatedText, polishedText |-> q.polishedText,
   mode |-> q.mode]

\* (mutant of MapSet: the Map is replaced by one that holds only the new row)
MapSet_Fresh(map, row) == <<row>>

\* Map.prototype.set(id, value): a new key is added at the end, an existing
\* key keeps its place and gets the new value
MapSet(map, row) ==
  IF \E i \in 1..Len(map) : map[i].id = row.id
  THEN [i \in 1..Len(map) |-> IF map[i].id = row.id THEN row ELSE map[i]]
  ELSE Append(map, row)

\* (mutant of randomUUID: every call yields the same id)
randomUUID_Same(n) == 1

\* randomUUID(): the n-th id drawn is unlike the ones drawn before
randomUUID(n) == n

\* an error raised by an implementation of IStorage
StorageError == Err(<<"E", "r", "r", "o", "r">>, 0, <<"d", "b">>)

\* the outcomes of one call of storage.createTranslation: it returns the row
\* it stored, or (only where the environment is faulty) it throws
StorageOutcomes == IF env.faulty THEN {"returns", "throws"} ELSE {"returns"}

\* (mutant of persistFailed: the route's catch calls the storage again)
persistFailed_Again(q, error) == [q EXCEPT !.stores = @ + 1]

\* the route's catch around  await storage.createTranslation(...)
persistFailed(q, error) ==
  [q EXCEPT !.pc = "Failed", !.http = 500, !.body = failBody(error),
            !.stores = @ + 1]

\* (mutant of savedTextsAfterCreate: every Artifact is saved for user 1)
savedTextsAfterCreate_AutoSave(rows, t) ==
  Append(rows, [id |-> t.id, userId |-> 1, text |-> t.polishedText])

\* the saved texts after createTranslation stored t: the method writes to
\* this.translations only
savedTextsAfterCreate(rows, t) == rows

\* Step 3 of a route:  await storage.createTranslation({...})  returns or throws.
Persist(p) ==
  /\ pipeline[p].pc = "Persisting"
  /\ \E outcome \in StorageOutcomes :
       IF outcome = "returns"
       THEN /\ translations' =
                 MapSet(translations,
                        createTranslation(pipeline[p], randomUUID(nextId), p))
            /\ savedTexts' =
                 savedTextsAfterCreate(savedTexts,
                   createTranslation(pipeline[p], randomUUID(nextId), p))
            /\ nextId' = nextId + 1
            /\ pipeline' = [pipeline EXCEPT ![p].pc = "Persisted",
                                            ![p].artifact = randomUUID(nextId),
                                            ![p].stores = @ + 1]
       ELSE /\ pipeline' = [pipeline EXCEPT ![p] = persistFailed(@, StorageError)]
            /\ UNCHANGED <<translations, nextId, savedTexts>>
  /\ UNCHANGED <<variant, env>>
  /\ UNCHANGED <<probe, authVars, session, storeVars>>

\* res.json(translation)
Respond(p) ==
  /\ pipeline[p].pc = "Persisted"
  /\ pipeline' = [pipeline EXCEPT ![p].pc = "Done", ![p].http = 200]
  /\ UNCHANGED <<variant, env, translations, nextId>>
  /\ UNCHANGED <<probe, authVars, savedVars, storeVars>>

Next ==
  \E p \in Pipelines :
    \/ StartSpeech(p)
    \/ StartText(p)
    \/ TranscribeAttempt(p)
    \/ TransformAttempt(p)
    \/ Persist(p)
    \/ Respond(p)

Spec == Init /\ [][Next]_vars

\* The same, where every call that is awaited returns or throws in the end
\* and the handler then goes on: no request waits for ever at an await.
Fairness ==
  \A p \in Pipelines :
    /\ WF_vars(TranscribeAttempt(p))
    /\ WF_vars(TransformAttempt(p))
    /\ WF_vars(Persist(p))
    /\ WF_vars(Respond(p))

SpecFair == Init /\ [][Next]_vars /\ Fairness

\* Two requests served at the same time by an AI service that answers every
\* call with a transcript or a JSON object.
InitPair ==
  /\ variant \in Variants
  /\ env = [live |-> Pipelines, faulty |-> FALSE, down |-> FALSE]
  /\ pipeline = [p \in Pipelines |-> IdlePipeline]
  /\ translations = <<>>
  /\ nextId = 1
  /\ probe = IdleProbe
  /\ NoAuth
  /\ NoSaved
  /\ NoStore

SpecPair == InitPair /\ [][Next]_vars

\* Two requests served while the AI service raises an error on every call.
InitDown ==
  /\ variant \in Variants
  /\ env = [live |-> Pipelines, faulty |-> TRUE, down |-> TRUE]
  /\ pipeline = [p \in Pipelines |-> IdlePipeline]
  /\ translations = <<>>
  /\ nextId = 1
  /\ probe = IdleProbe
  /\ NoAuth
  /\ NoSaved
  /\ NoStore

NextDown ==
  \E p \in Pipelines :
    \/ StartSpeech(p)
    \/ StartText(p)
    \/ TranscribeAttempt(p)
    \/ TransformAttempt(p)

SpecDown == InitDown /\ [][NextDown]_vars

(* ------------------------------------------------------------------ *)
(* The classifier on its own                                            *)
(* ------------------------------------------------------------------ *)
\* the HTTP statuses an SDK error may carry (0: none)
Statuses == {0, 400, 429, 500, 503}

MsgBad == <<"b", "a", "d">>
MsgTooMany == <<"T", "o", "o", " ", "M", "a", "n", "y", " ", "R", "e", "q", "u", "e", "s", "t", "s">>
MsgId == <<"i", "d", " ", "1", "4", "2", "9", "0">>
MsgQuota == <<"q", "u", "o", "t", "a">>
MsgQuotaUp == <<"Q", "u", "o", "t", "a", " ", "u", "p">>
MsgQUOTA == <<"Q", "U", "O", "T", "A">>
MsgRateLimit == <<"r", "a", "t", "e", " ", "l", "i", "m", "i", "t">>
MsgRateLimitUp == <<"R", "a", "t", "e", " ", "L", "i", "m", "i", "t">>
MsgRatelimit == <<"r", "a", "t", "e", "l", "i", "m", "i", "t">>
MsgTimeout == <<"t", "i", "m", "e", "o", "u", "t">>

\* the messages an SDK error may carry
Messages ==
  {<<>>, MsgBad, MsgTooMany, MsgId, MsgQuota, MsgQuotaUp, MsgQUOTA,
   MsgRateLimit, MsgRateLimitUp, MsgRatelimit, StrRATELIMIT, MsgTimeout}

ProbeErrors == {Err(StrApiError, st, msg) : st \in Statuses, msg \in Messages}

InitClassify ==
  /\ variant = "gemini"
  /\ env = [live |-> {}, faulty |-> FALSE, down |-> FALSE]
  /\ pipeline = [p \in Pipelines |-> IdlePipeline]
  /\ translations = <<>>
  /\ nextId = 1
  /\ probe \in {[pc |-> "thrown", error |-> e, transient |-> FALSE] : e \in ProbeErrors}
  /\ NoAuth
  /\ NoSaved
  /\ NoStore

\* the catch block asks the classifier about the error it caught
Classify ==
  /\ probe.pc = "thrown"
  /\ probe' = [probe EXCEPT !.pc = "classified",
                            !.transient = isRateLimitError(probe.error)]
  /\ UNCHANGED <<aiVars, authVars, savedVars, storeVars>>

NextClassify == Classify

SpecClassify == InitClassify /\ [][NextClassify]_vars

(* ------------------------------------------------------------------ *)
(* Users: POST /api/auth/signup and storage.createUser                  *)
(* ------------------------------------------------------------------ *)
Usernames == {"ann", "bob"}
Emails == {"a@x", "b@x"}
Backends == {"mem", "durable"}

InitUsers ==
  /\ variant = "gemini"
  /\ env = [live |-> {}, faulty |-> FALSE, down |-> FALSE]
  /\ pipeline = [p \in Pipelines |-> IdlePipeline]
  /\ translations = <<>>
  /\ nextId = 1
  /\ probe = IdleProbe
  /\ backend \in Backends
  /\ users = <<>>
  /\ signup = [r \in Requests |-> IdleSignup]
  /\ NoSaved
  /\ NoStore

UserRows == {users[i] : i \in 1..Len(users)}

\* getUserByUsername / getUserByEmail: whether a row is found
getUserByUsername(username) == \E u \in UserRows : u.username = username
getUserByEmail(email) == email # "" /\ \E u \in UserRows : u.email = email

\* POST /api/auth/signup up to its first await: signupSchema.safeParse
SignupRequest(r) ==
  /\ signup[r].pc = "Idle"
  /\ \E username \in Usernames, email \in Emails, valid \in BOOLEAN :
       signup' = [signup EXCEPT ![r] =
         IF valid
         THEN [@ EXCEPT !.pc = "CheckUsername", !.kind = "route",
                        !.username = username, !.email = email]
         ELSE [@ EXCEPT !.pc = "Done", !.kind = "route", !.http = 400]]
  /\ UNCHANGED <<aiVars, probe, backend, users, savedVars, storeVars>>

\* storage.createUser called on its own (email is optional)
CreateUserCall(r) ==
  /\ signup[r].pc = "Idle"
  /\ \E username \in Usernames, email \in Emails \cup {""} :
       signup' = [signup EXCEPT ![r] =
         [@ EXCEPT !.pc = "Creating", !.kind = "direct",
                   !.username = username, !.email = email]]
  /\ UNCHANGED <<aiVars, probe, backend, users, savedVars, storeVars>>

\* const existingUser = await storage.getUserByUsername(username)
CheckUsername(r) ==
  /\ signup[r].pc = "CheckUsername"
  /\ signup' = [signup EXCEPT ![r] =
       IF getUserByUsername(signup[r].username)
       THEN [@ EXCEPT !.pc = "Done", !.http = 409]
       ELSE [@ EXCEPT !.pc = "CheckEmail"]]
  /\ UNCHANGED <<aiVars, probe, backend, users, savedVars, storeVars>>

\* const existingEmail = await storage.getUserByEmail?.(email): MemStorage has
\* no getUserByEmail, so the call yields undefined there
CheckEmail(r) ==
  /\ signup[r].pc = "CheckEmail"
  /\ signup' = [signup EXCEPT ![r] =
       IF backend = "durable" /\ getUserByEmail(signup[r].email)
       THEN [@ EXCEPT !.pc = "Done", !.http = 409]
       ELSE [@ EXCEPT !.pc = "Creating"]]
  /\ UNCHANGED <<aiVars, probe, backend, users, savedVars, storeVars>>

\* the row createUser writes; ids are fresh (randomUUID, gen_random_uuid)
UserRow(q, id) == [id |-> id, username |-> q.username, email |-> q.email]

\* the unique constraint of mvp_users.username: the insert fails
uniqueViolation(username) == \E u \in UserRows : u.username = username

\* storage.createUser: MemStorage sets the row in its Map, SupabaseStorage
\* inserts it into mvp_users; a failed insert throws, which the route turns
\* into a 500
CreateUser(r) ==
  /\ signup[r].pc = "Creating"
  /\ IF backend = "durable" /\ uniqueViolation(signup[r].username)
     THEN /\ signup' = [signup EXCEPT ![r] =
               IF @.kind = "route"
               THEN [@ EXCEPT !.pc = "Done", !.http = 500]
               ELSE [@ EXCEPT !.pc = "Threw"]]
          /\ users' = users
     ELSE /\ users' = Append(users, UserRow(signup[r], Len(users) + 1))
          /\ signup' = [signup EXCEPT ![r].pc = "Created", ![r].row = Len(users) + 1]
  /\ UNCHANGED <<aiVars, probe, backend, savedVars, storeVars>>

\* res.status(201).json(...)
SignupRespond(r) ==
  /\ signup[r].pc = "Created"
  /\ signup[r].kind = "route"
  /\ signup' = [signup EXCEPT ![r].pc = "Done", ![r].http = 201]
  /\ UNCHANGED <<aiVars, probe, backend, users, savedVars, storeVars>>

NextUsers ==
  \E r \in Requests :
    \/ SignupRequest(r)
    \/ CreateUserCall(r)
    \/ CheckUsername(r)
    \/ CheckEmail(r)
    \/ CreateUser(r)
    \/ SignupRespond(r)

SpecUsers == InitUsers /\ [][NextUsers]_vars

(* ------------------------------------------------------------------ *)
(* Saved texts: POST / GET / DELETE /api/saved-texts                    *)
(* ------------------------------------------------------------------ *)
UserIds == {1, 2}
Callers == {0} \cup UserIds
SavedIds == 1..(MaxSaved + 1)

InitSaved ==
  /\ variant = "gemini"
  /\ env = [live |-> {}, faulty |-> FALSE, down |-> FALSE]
  /\ pipeline = [p \in Pipelines |-> IdlePipeline]
  /\ translations = <<>>
  /\ nextId = 1
  /\ probe = IdleProbe
  /\ backend \in Backends
  /\ users = <<>>
  /\ signup = [r \in Requests |-> IdleSignup]
  /\ NoSaved
  /\ NoStore

\* createSavedText: the row written for the caller
SavedRow(id, userId) == [id |-> id, userId |-> userId, text |-> TextHi]

\* getSavedText(id): the row with that id, or undefined
getSavedText(rows, id) ==
  IF \E i \in 1..Len(rows) : rows[i].id = id
  THEN rows[CHOOSE i \in 1..Len(rows) : rows[i].id = id]
  ELSE NoRow

\* (mutant of MemDeleteSavedText: the delete without the ownership test)
MemDeleteSavedText_AnyOwner(rows, id, userId) ==
  IF getSavedText(rows, id) # NoRow
  THEN [rows |-> SelectSeq(rows, LAMBDA r : r.id # id), result |-> TRUE]
  ELSE [rows |-> rows, result |-> FALSE]

\* MemStorage.deleteSavedText(id, userId)
MemDeleteSavedText(rows, id, userId) ==
  LET text == getSavedText(rows, id) IN
  IF text # NoRow /\ text.userId = userId
  THEN [rows |-> SelectSeq(rows, LAMBDA r : r.id # id), result |-> TRUE]
  ELSE [rows |-> rows, result |-> FALSE]

\* SupabaseStorage.deleteSavedText(id, userId):
\*   delete ... where id = id and userId = userId returning *
DbDeleteSavedText(rows, id, userId) ==
  LET hit(r) == r.id = id /\ r.userId = userId IN
  [rows |-> SelectSeq(rows, LAMBDA r : ~hit(r)),
   result |-> Len(SelectSeq(rows, hit)) > 0]

deleteSavedText(rows, id, userId) ==
  IF backend = "mem" THEN MemDeleteSavedText(rows, id, userId)
  ELSE DbDeleteSavedText(rows, id, userId)

\* a caller may start a request when the last one was answered
Ready(c) == session[c].pc \in {"Idle", "Done"}

\* (mutant of savedTextData: the body is spread last)
savedTextData_BodyLast(bodyUserId, userId) ==
  IF bodyUserId # 0 THEN bodyUserId ELSE userId

\* the userId of  { ...req.body, userId }  (api/index.ts: userId:
\* payload.userId): the key written last wins
savedTextData(bodyUserId, userId) == userId

\* POST /api/saved-texts
SaveText(c) ==
  /\ Ready(c)
  /\ clock.uuid <= MaxSaved
  /\ \E caller \in Callers, bodyUserId \in Callers, valid \in BOOLEAN :
       LET q == [IdleSession EXCEPT !.pc = "Done", !.op = "save",
                                    !.caller = caller, !.bodyUserId = bodyUserId]
           owner == savedTextData(bodyUserId, caller)
       IN
       IF caller = 0
       THEN /\ session' = [session EXCEPT ![c] = [q EXCEPT !.http = 401]]
            /\ UNCHANGED <<savedTexts, clock>>
       ELSE IF ~valid
       THEN /\ session' = [session EXCEPT ![c] = [q EXCEPT !.http = 400]]
            /\ UNCHANGED <<savedTexts, clock>>
       ELSE /\ savedTexts' = Append(savedTexts, SavedRow(clock.uuid, owner))
            /\ clock' = [clock EXCEPT !.uuid = @ + 1]
            /\ session' = [session EXCEPT ![c] =
                 [q EXCEPT !.http = 201, !.id = clock.uuid,
                           !.body = SavedRow(clock.uuid, owner)]]
  /\ UNCHANGED <<aiVars, probe, authVars, procs>>

\* GET /api/saved-texts/:param with an id: a guest gets the empty list, a
\* signed-in caller the row if storage.getSavedText finds one that is theirs
GetSavedText(c) ==
  /\ Ready(c)
  /\ \E caller \in Callers, id \in SavedIds :
       LET q == [IdleSession EXCEPT !.pc = "Done", !.op = "get",
                                    !.caller = caller, !.id = id]
           savedText == getSavedText(savedTexts, id)
       IN
       session' = [session EXCEPT ![c] =
         IF caller = 0 THEN [q EXCEPT !.http = 200]
         ELSE IF savedText = NoRow \/ savedText.userId # caller
         THEN [q EXCEPT !.found = savedText, !.http = 404]
         ELSE [q EXCEPT !.found = savedText, !.http = 200, !.body = savedText]]
  /\ UNCHANGED <<aiVars, probe, authVars, savedTexts, storeVars>>

\* DELETE /api/saved-texts/:id through storage.deleteSavedText
DeleteSavedText(c) ==
  /\ Ready(c)
  /\ \E caller \in Callers, id \in SavedIds :
       LET q == [IdleSession EXCEPT !.pc = "Done", !.op = "delete",
                                    !.caller = caller, !.id = id]
           d == deleteSavedText(savedTexts, id, caller)
       IN
       IF caller = 0
       THEN /\ session' = [session EXCEPT ![c] = [q EXCEPT !.http = 401]]
            /\ savedTexts' = savedTexts
       ELSE /\ savedTexts' = d.rows
            /\ session' = [session EXCEPT ![c] =
                 [q EXCEPT !.deleted = d.result,
                           !.http = IF d.result THEN 200 ELSE 404]]
  /\ UNCHANGED <<aiVars, probe, authVars, storeVars>>

\* DELETE /api/saved-texts/:id of api/index.ts, up to its second await:
\*   select ... where id = id and userId = payload.userId
ApiDeleteSelect(c) ==
  /\ Ready(c)
  /\ backend = "durable"
  /\ \E caller \in Callers, id \in SavedIds :
       LET q == [IdleSession EXCEPT !.op = "apiDelete", !.caller = caller, !.id = id]
           result == SelectSeq(savedTexts, LAMBDA r : r.id = id /\ r.userId = caller)
       IN
       session' = [session EXCEPT ![c] =
         IF caller = 0 THEN [q EXCEPT !.pc = "Done", !.http = 401]
         ELSE IF Len(result) = 0 THEN [q EXCEPT !.pc = "Done", !.http = 404]
         ELSE [q EXCEPT !.pc = "Deleting", !.found = result[1]]]
  /\ UNCHANGED <<aiVars, probe, authVars, savedTexts, storeVars>>

\* ... then  delete ... where id = id,  and the answer
ApiDeleteRemove(c) ==
  /\ session[c].pc = "Deleting"
  /\ savedTexts' = SelectSeq(savedTexts, LAMBDA r : r.id # session[c].id)
  /\ session' = [session EXCEPT ![c].pc = "Done", ![c].deleted = TRUE, ![c].http = 200]
  /\ UNCHANGED <<aiVars, probe, authVars, storeVars>>

NextSaved ==
  \E c \in Clients :
    \/ SaveText(c)
    \/ GetSavedText(c)
    \/ DeleteSavedText(c)
    \/ ApiDeleteSelect(c)
    \/ ApiDeleteRemove(c)

SpecSaved == InitSaved /\ [][NextSaved]_vars

\* One request of any kind served while one client saves texts.
NextApp ==
  \/ Next
  \/ \E c \in {1} : SaveText(c)

SpecApp == Init /\ [][NextApp]_vars

(* ------------------------------------------------------------------ *)
(* The translation store of each server process                         *)
(* ------------------------------------------------------------------ *)
\* MemStorage and SupabaseStorage both keep  translations = new Map()  in the
\* storage instance of the process (api/index.ts: a module-level Map).
InitStore ==
  /\ variant = "gemini"
  /\ env = [live |-> {}, faulty |-> FALSE, down |-> FALSE]
  /\ pipeline = [p \in Pipelines |-> IdlePipeline]
  /\ translations = <<>>
  /\ nextId = 1
  /\ probe = IdleProbe
  /\ backend \in Backends
  /\ users = <<>>
  /\ signup = [r \in Requests |-> IdleSignup]
  /\ NoSaved
  /\ NoStore

\* the limits a caller may pass
Limits == (0 - 1)..(MaxArtifacts + 1)
DefaultLimit == 10

\* the record createTranslation stores: { ...insertTranslation, id, createdAt }
StoredTranslation(id, now) == [id |-> id, createdAt |-> now, originalText |-> TextHi]

\* Array.prototype.sort((a, b) => b.createdAt - a.createdAt): stable, so x
\* goes behind every element that is not older than it
RECURSIVE insertByDate(_, _)
insertByDate(sorted, x) ==
  IF sorted = <<>> THEN <<x>>
  ELSE IF Head(sorted).createdAt >= x.createdAt
  THEN <<Head(sorted)>> \o insertByDate(Tail(sorted), x)
  ELSE <<x>> \o sorted

\* (mutant of sortByDateDesc: the values in Map order)
sortByDateDesc_Unsorted(arr) == arr

RECURSIVE sortByDateDesc(_)
sortByDateDesc(arr) ==
  IF arr = <<>> THEN <<>>
  ELSE insertByDate(sortByDateDesc(SubSeq(arr, 1, Len(arr) - 1)), arr[Len(arr)])

\* Array.prototype.slice(0, end): a negative end counts from the back
slice0(arr, end) ==
  LET stop == IF end < 0 THEN (IF Len(arr) + end < 0 THEN 0 ELSE Len(arr) + end)
              ELSE (IF end > Len(arr) THEN Len(arr) ELSE end)
  IN SubSeq(arr, 1, stop)

\* getRecentTranslations(limit = 10)
getRecentTranslations(map, limit) == slice0(sortByDateDesc(map), limit)

\* getTranslation(id): this.translations.get(id), as a list of 0 or 1 rows
getTranslation(map, id) == SelectSeq(map, LAMBDA t : t.id = id)

\* time passes
Tick ==
  /\ clock.now < MaxTime
  /\ clock' = [clock EXCEPT !.now = @ + 1]
  /\ UNCHANGED <<aiVars, probe, authVars, savedVars, procs>>

\* storage.createTranslation in process k
CreateTranslation(k) ==
  /\ clock.uuid <= MaxArtifacts
  /\ LET t == StoredTranslation(randomUUID(clock.uuid), clock.now) IN
     procs' = [procs EXCEPT ![k] =
       [translations |-> MapSet(@.translations, t), op |-> "create",
        query |-> Undefined, arg |-> t.id, reply |-> <<t>>]]
  /\ clock' = [clock EXCEPT !.uuid = @ + 1]
  /\ UNCHANGED <<aiVars, probe, authVars, savedVars>>

\* storage.getRecentTranslations(limit) / getRecentTranslations() in process k
GetRecentTranslations(k) ==
  /\ \E given \in BOOLEAN, value \in Limits :
       LET limit == IF given THEN value ELSE DefaultLimit IN
       procs' = [procs EXCEPT ![k] =
         [@ EXCEPT !.op = "recent", !.query = Undefined, !.arg = limit,
                   !.reply = getRecentTranslations(procs[k].translations, limit)]]
  /\ UNCHANGED <<aiVars, probe, authVars, savedVars, clock>>

\* the values of ?limit= a caller may send (Undefined: no such parameter)
QueryLimits ==
  {Undefined, <<>>, <<"0">>, <<"x">>, <<"2">>, <<"2", "x">>, <<"-", "1">>, <<"1", "0">>}

Digits == <<"0", "1", "2", "3", "4", "5", "6", "7", "8", "9">>
IsDigit(ch) == \E i \in 1..10 : Digits[i] = ch
DigitValue(ch) == (CHOOSE i \in 1..10 : Digits[i] = ch) - 1

\* the value of the longest prefix of digits of s, read after acc
RECURSIVE digitsValue(_, _)
digitsValue(s, acc) ==
  IF s = <<>> \/ ~IsDigit(Head(s)) THEN acc
  ELSE digitsValue(Tail(s), 10 * acc + DigitValue(Head(s)))

\* parseInt(string): white space is skipped, then an optional sign and the
\* digits that follow are read; NaN when there is no digit (parseInt of
\* undefined reads the text "undefined")
NaN == [nan |-> TRUE, value |-> 0]
parseInt(string) ==
  LET s == IF string = Undefined THEN <<"u">> ELSE trimStart(string)
      neg == s # <<>> /\ Head(s) = "-"
      body == IF s # <<>> /\ Head(s) \in {"-", "+"} THEN Tail(s) ELSE s
  IN
  IF body = <<>> \/ ~IsDigit(Head(body)) THEN NaN
  ELSE [nan |-> FALSE,
        value |-> IF neg THEN 0 - digitsValue(body, 0) ELSE digitsValue(body, 0)]

\* parseInt(req.query.limit as string) || 10 :  NaN and 0 are falsy
queryLimit(string) ==
  IF parseInt(string).nan \/ parseInt(string).value = 0 THEN DefaultLimit
  ELSE parseInt(string).value

\* GET /api/translations in process k
GetTranslations(k) ==
  /\ \E query \in QueryLimits :
       procs' = [procs EXCEPT ![k] =
         [@ EXCEPT !.op = "route", !.query = query, !.arg = queryLimit(query),
                   !.reply = getRecentTranslations(procs[k].translations,
                                                   queryLimit(query))]]
  /\ UNCHANGED <<aiVars, probe, authVars, savedVars, clock>>

\* storage.getTranslation(id) in process k
GetTranslation(k) ==
  /\ \E id \in 1..MaxArtifacts :
       procs' = [procs EXCEPT ![k] =
         [@ EXCEPT !.op = "get", !.query = Undefined, !.arg = id,
                   !.reply = getTranslation(procs[k].translations, id)]]
  /\ UNCHANGED <<aiVars, probe, authVars, savedVars, clock>>

\* process k is restarted: its storage instance is constructed anew
Restart(k) ==
  /\ procs[k].translations # <<>>
  /\ procs' = [procs EXCEPT ![k] = IdleProc]
  /\ UNCHANGED <<aiVars, probe, authVars, savedVars, clock>>

NextStore ==
  \/ Tick
  \/ \E k \in Processes :
       \/ CreateTranslation(k)
       \/ GetRecentTranslations(k)
       \/ GetTranslation(k)
       \/ Restart(k)

SpecStore == InitStore /\ [][NextStore]_vars

\* One process whose store is read through the storage and through the route.
NextLimit ==
  \/ Tick
  \/ \E k \in {1} :
       \/ CreateTranslation(k)
       \/ GetRecentTranslations(k)
       \/ GetTranslations(k)

SpecLimit == InitStore /\ [][NextLimit]_vars

\* One process that lives on, serving store, saved-text and user operations
\* of one client in any order.
NextOps ==
  \/ \E k \in {1} :
       \/ CreateTranslation(k)
       \/ GetRecentTranslations(k)
       \/ GetTranslation(k)
  \/ \E c \in {1} :
       \/ SaveText(c)
       \/ DeleteSavedText(c)
  \/ \E r \in {1} :
       \/ CreateUserCall(r)
       \/ CreateUser(r)

SpecOps == InitStore /\ [][NextOps]_vars

(* ------------------------------------------------------------------ *)
(* Properties of the retry wrapper                                      *)
(* ------------------------------------------------------------------ *)
Runs == {pipeline[p].run : p \in Pipelines}

AllTransient(h, k) == \A i \in 1..k : h[i] = "transient"

\* C1 as the specification states it (maxAttempts = 5): a unit of work is
\* never invoked more than 5 times.
C1_AtMostFiveCalls == \A r \in Runs : r.calls <= 5

\* C1, amended: a unit of work under the retry wrapper is invoked at most 6
\* times (the first attempt and retries = 5 more); when the 6th attempt fails
\* with a transient error as the five before it, the run is rejected with
\* that transient error, not as an abort, and the request has failed.
C1_AtMostSixCalls ==
  \A p \in Pipelines :
    LET r == pipeline[p].run IN
    /\ r.calls <= 6
    /\ Len(r.hist) = r.calls
    /\ (r.calls = 6 /\ AllTransient(r.hist, 6)) =>
         /\ r.status = "rejected"
         /\ ~r.aborted
         /\ isRateLimitError(r.err)
         /\ pipeline[p].pc = "Failed"
         /\ pipeline[p].http = 500

C1_Witness ==
  \E r \in Runs : r.calls = 6 /\ AllTransient(r.hist, 6) /\ r.status = "rejected"

\* C2: a unit of work that fails with a transient error on attempts 1..k and
\* succeeds on attempt k+1 resolves with the value of that attempt after
\* exactly k retries, and the delay before retry i is min(2000 * 2^(i-1), 30000).
C2_SuccessAfterTransient ==
  \A p \in Pipelines :
    LET r == pipeline[p].run
        k == r.calls - 1
    IN
    /\ \A i \in 1..Len(r.delays) :
         r.delays[i] = (IF 2000 * 2 ^ (i - 1) < 30000
                        THEN 2000 * 2 ^ (i - 1) ELSE 30000)
    /\ (r.calls >= 1 /\ AllTransient(r.hist, k) /\ r.hist[r.calls] = "ok") =>
         /\ r.status = "resolved"
         /\ Len(r.delays) = k
         /\ r.answer.ok
         /\ (pipeline[p].pc = "Failed" => pipeline[p].stores = 1)
         /\ (r.stage = "transcribe" /\ Truthy(r.answer.text.raw)) =>
              r.value.text = r.answer.text.raw

C2_Witness ==
  \E r \in Runs :
    /\ r.hist = <<"transient", "transient", "transient", "transient", "ok">>
    /\ r.status = "resolved"
    /\ r.delays = <<2000, 4000, 8000, 16000>>

\* C3: an attempt, the first or a later one, that fails with an error the
\* classifier does not call transient is the last invocation: no delay is
\* scheduled after it, the run is rejected (as an abort, where the wrapper is
\* in use) and the request has failed.
C3_FatalAborts ==
  \A p \in Pipelines :
    LET r == pipeline[p].run IN
    \A i \in 1..Len(r.hist) :
      r.hist[i] = "fatal" =>
        /\ i = r.calls
        /\ Len(r.delays) = i - 1
        /\ r.status = "rejected"
        /\ (variant # "openai" => r.aborted)
        /\ pipeline[p].pc = "Failed"
        /\ pipeline[p].http = 500

C3_Witness ==
  \E r \in Runs :
    /\ r.hist = <<"transient", "transient", "fatal">>
    /\ r.status = "rejected"
    /\ r.aborted

(* ------------------------------------------------------------------ *)
(* Properties of the classifier                                         *)
(* ------------------------------------------------------------------ *)
\* the rate-limit/quota signals an error may carry: a 429 status, the vendor
\* quota code, or "quota" / "rate limit" in its message in any letter case
CarriesSignal(e) ==
  \/ e.status = 429
  \/ includes(e.message, StrRATELIMIT)
  \/ includes(toLowerCase(e.message), StrQuota)
  \/ includes(toLowerCase(e.message), StrRateLimit)

\* C4: the classifier calls an error transient exactly when the error carries
\* a rate-limit/quota signal (a 429 status included, whatever its message);
\* every other error is fatal.
C4_ClassifierMatchesSignal ==
  probe.pc = "classified" => (probe.transient <=> CarriesSignal(probe.error))

(* ------------------------------------------------------------------ *)
(* Properties of the pipeline                                           *)
(* ------------------------------------------------------------------ *)
\* a transcript that is empty or only white space
Blank(s) == s = Undefined \/ \A i \in 1..Len(s) : s[i] \in WhiteSpace

ArtifactsOf(p, store) == {i \in 1..Len(store) : store[i].pid = p}

\* the step in which the transcription call of request p returns text
TranscriptArrives(p, text) ==
  /\ pipeline[p].pc = "Transcribing"
  /\ pipeline'[p].run.calls = pipeline[p].run.calls + 1
  /\ pipeline'[p].run.answer.ok
  /\ pipeline'[p].run.answer.text.raw = text

\* C5: when the transcription call returns an empty or whitespace-only
\* transcript, the request ends in EmptyTranscript with HTTP 400, the run of
\* the transcription is resolved (not retried), no transform run is started,
\* no Artifact is created, and from EmptyTranscript the request never moves
\* again: no further call to the AI service, no Artifact.
C5_EmptyTranscript ==
  [][\A p \in Pipelines :
       /\ \A text \in {Undefined, <<>>, TextSpaces} :
            TranscriptArrives(p, text) =>
              /\ Blank(text)
              /\ pipeline'[p].pc = "EmptyTranscript"
              /\ pipeline'[p].http = 400
              /\ pipeline'[p].run.stage = "transcribe"
              /\ pipeline'[p].run.status = "resolved"
              /\ pipeline'[p].run.delays = pipeline[p].run.delays
              /\ pipeline'[p].artifact = 0
              /\ translations' = translations
       /\ pipeline[p].pc = "EmptyTranscript" =>
            /\ pipeline'[p] = pipeline[p]
            /\ ArtifactsOf(p, translations') = {}]_vars

C5_Witness ==
  \E p \in Pipelines :
    /\ pipeline[p].pc = "EmptyTranscript"
    /\ pipeline[p].run.answer.ok
    /\ pipeline[p].run.answer.text.raw = TextSpaces
    /\ pipeline[p].run.hist = <<"ok">>
    /\ pipeline[p].http = 400
    /\ translations = <<>>

\* the request's storage call threw
StorageThrew(q) == q.pc = "Failed" /\ q.stores >= 1

\* the model's answer to the last transform call of request p, if it answered
Answered(p) ==
  /\ pipeline[p].run.stage = "transform"
  /\ pipeline[p].run.calls >= 1
  /\ pipeline[p].run.answer.ok

\* a field of the model's response when it is present and non-empty
ModelField(t, f) ==
  IF t.kind = "object" /\ Truthy(t.obj[f]) THEN t.obj[f] ELSE Undefined

\* C6: whatever body the model's response has (unparseable, empty, JSON that
\* is no object such as null, an object without or with an empty
\* polishedText), polishText raises no error and returns the input text; it
\* returns the model's polishedText only when that is present and non-empty.
C6_PolishDegrades ==
  \A p \in Pipelines :
    (pipeline[p].mode = "polish" /\ Answered(p)) =>
      /\ pipeline[p].run.status = "resolved"
      /\ pipeline[p].run.value.polishedText =
           OrElse(ModelField(pipeline[p].run.answer.text, "polishedText"),
                  pipeline[p].originalText)

\* C7: for a cross-language request with non-empty input and any response of
\* the model, translateAndPolish returns translatedText = the model's
\* translatedText if present and non-empty, else the input; polishedText =
\* the model's polishedText, else the model's translatedText, else the input;
\* so neither is empty.  Stated of the copy that parses with safeJsonParse.
C7_TranslateFallbackChain ==
  \A p \in Pipelines :
    LET q == pipeline[p]
        t == q.run.answer.text
        tt == OrElse(ModelField(t, "translatedText"), q.originalText)
    IN
    (variant = "gemini" /\ q.mode = "diff" /\ Answered(p)
       /\ Truthy(q.originalText)) =>
      /\ q.run.status = "resolved"
      /\ q.run.value.translatedText = tt
      /\ q.run.value.polishedText = OrElse(ModelField(t, "polishedText"), tt)
      /\ Truthy(q.run.value.translatedText)
      /\ Truthy(q.run.value.polishedText)

\* the requests that ended without success
Ended(q) == q.pc \in {"EmptyTranscript", "Failed", "Rejected"}

C8_ArtifactsComplete ==
  /\ \A i \in 1..Len(translations) :
       LET a == translations[i]
           q == pipeline[a.pid]
       IN
       /\ q.pc \in {"Persisted", "Done"}
       /\ q.artifact = a.id
       /\ Truthy(q.originalText)
       /\ q.input = "audio" => ~Blank(q.originalText)
       /\ q.run.stage = "transform"
       /\ q.run.status = "resolved"
       /\ q.run.hist[q.run.calls] = "ok"
       /\ a.originalText = q.originalText
       /\ a.polishedText = q.run.value.polishedText
       /\ a.translatedText =
            (IF q.mode = "polish" THEN q.originalText
             ELSE q.run.value.translatedText)
  /\ \A p \in Pipelines :
       Ended(pipeline[p]) =>
         /\ pipeline[p].artifact = 0
         /\ ArtifactsOf(p, translations) = {}

C8_EndLeavesStore ==
  \A p \in Pipelines :
    /\ (~Ended(pipeline[p]) /\ Ended(pipeline'[p])) => translations' = translations
    /\ Ended(pipeline[p]) =>
         /\ pipeline'[p] = pipeline[p]
         /\ ArtifactsOf(p, translations') = {}

\* C8: every Artifact in the store belongs to a request whose input or
\* transcription step and whose transform step both completed successfully,
\* and holds what those steps produced; a request that ends in
\* EmptyTranscript or Failed or is rejected at validation has no Artifact, and
\* the step in which it ends leaves the store exactly as it was.
C8_NoPartialWrites == []C8_ArtifactsComplete /\ [][C8_EndLeavesStore]_vars

C8_Witness ==
  \E p \in Pipelines :
    /\ pipeline[p].pc = "Done"
    /\ pipeline[p].input = "audio"
    /\ pipeline[p].run.hist = <<"transient", "ok">>
    /\ Len(translations) = 1
    /\ translations[1].pid = p

\* a response of the model that cannot be parsed or lacks the expected fields
Malformed(mode, t) ==
  \/ t.kind \in {"syntax", "empty", "null", "scalar"}
  \/ /\ t.kind = "object"
     /\ \/ t.obj.polishedText = Undefined
        \/ mode = "diff" /\ t.obj.translatedText = Undefined

\* C9: when the transform call itself succeeds but its response cannot be
\* parsed or lacks the expected fields, the request never fails: it falls
\* back to the text it has and goes on to the store.
C9_MalformedNeverFails ==
  \A p \in Pipelines :
    (Answered(p) /\ Malformed(pipeline[p].mode, pipeline[p].run.answer.text)) =>
      /\ \/ pipeline[p].pc \in {"Transforming", "Persisting", "Persisted", "Done"}
         \/ StorageThrew(pipeline[p])
      /\ pipeline[p].pc # "Transforming" =>
           /\ Truthy(pipeline[p].polishedText)
           /\ Truthy(pipeline[p].translatedText)

(* ------------------------------------------------------------------ *)
(* Properties of the users                                              *)
(* ------------------------------------------------------------------ *)
\* C10: after any interleaving of signup and createUser calls no two User
\* rows share a username, on either back end, and the row of a createUser
\* call is the only row with its username.
C10_UsernamesUnique ==
  \A i, j \in 1..Len(users) :
    users[i].username = users[j].username => i = j

\* the rows written by signups (POST /api/auth/signup)
SignupRows == {signup[r].row : r \in {x \in Requests : signup[x].kind = "route"}} \ {0}

\* C11: on the durable back end, after any interleaving of signups no two
\* User rows with a non-null email share that email.
C11_EmailsUnique ==
  backend = "durable" =>
    \A i, j \in SignupRows :
      (users[i].email # "" /\ users[i].email = users[j].email) => i = j

(* ------------------------------------------------------------------ *)
(* Properties of the saved texts                                        *)
(* ------------------------------------------------------------------ *)
RowSet(rows) == {rows[i] : i \in 1..Len(rows)}

\* the row with this id exists and belongs to this user
Owns(rows, id, userId) == \E r \in RowSet(rows) : r.id = id /\ r.userId = userId

\* request c is answered in this step
Answers(c, op) ==
  /\ session'[c] # session[c]
  /\ session'[c].op = op
  /\ session'[c].pc = "Done"
  /\ session'[c].caller # 0

\* C12: deleteSavedText(id, userId) returns true and removes exactly the row
\* with that id when that row exists and belongs to userId; in every other
\* case it returns false and leaves every row as it was, on both back ends.
\* The route of api/index.ts, which selects and then deletes, removes no row
\* but the caller's own row with that id.
C12_OwnershipCheckedDelete ==
  [][\A c \in Clients :
       LET q == session'[c]
           rest == SelectSeq(savedTexts, LAMBDA r : r.id # q.id)
       IN
       /\ Answers(c, "delete") =>
            IF Owns(savedTexts, q.id, q.caller)
            THEN /\ q.deleted /\ q.http = 200
                 /\ savedTexts' = rest
                 /\ Len(savedTexts') = Len(savedTexts) - 1
            ELSE /\ ~q.deleted /\ q.http = 404
                 /\ savedTexts' = savedTexts
       /\ (Answers(c, "apiDelete") /\ session[c].pc # "Deleting") =>
            /\ ~Owns(savedTexts, q.id, q.caller)
            /\ ~q.deleted /\ q.http = 404
            /\ savedTexts' = savedTexts
       /\ (Answers(c, "apiDelete") /\ session[c].pc = "Deleting") =>
            /\ savedTexts' = rest
            /\ \A r \in RowSet(savedTexts) \ RowSet(savedTexts') :
                 r.id = q.id /\ r.userId = q.caller]_vars

C12_Witness ==
  \E c, d \in Clients :
    /\ session[c].op = "delete" /\ session[c].deleted /\ session[c].http = 200
    /\ ~Owns(savedTexts, session[c].id, session[c].caller)
    /\ session[d].op = "delete" /\ session[d].pc = "Done" /\ session[d].caller # 0
    /\ ~session[d].deleted /\ session[d].http = 404
    /\ \E r \in RowSet(savedTexts) :
         r.id = session[d].id /\ r.userId # session[d].caller

\* C13: a caller who does not own a row gets from getSavedText and
\* deleteSavedText what an unknown id gives (undefined / false, not found),
\* and never the row: what storage.getSavedText hands back for a caller is
\* undefined or a row of that caller, and the response carries no other row.
C13_NoExistenceLeak ==
  \A c \in Clients :
    (session[c].pc = "Done" /\ session[c].caller # 0) =>
      /\ session[c].found = NoRow \/ session[c].found.userId = session[c].caller
      /\ session[c].body = NoRow \/ session[c].body.userId = session[c].caller
      /\ session[c].http # 403

(* ------------------------------------------------------------------ *)
(* Properties of the translation store                                  *)
(* ------------------------------------------------------------------ *)
DistinctDates(map) ==
  \A i, j \in 1..Len(map) : map[i].createdAt = map[j].createdAt => i = j

\* process k answers an operation in this step
StoreAnswers(k, op) == procs'[k] # procs[k] /\ procs'[k].op = op

\* C14: over a store of n artifacts with distinct createdAt,
\* getRecentTranslations(limit), limit >= 0 or defaulted to 10, returns exactly
\* the min(limit, n) artifacts with the greatest createdAt, in strictly
\* descending order of createdAt.
C14_RecentTranslations ==
  [][\A k \in Processes :
       LET map == procs[k].translations
           limit == procs'[k].arg
           r == procs'[k].reply
       IN
       (StoreAnswers(k, "recent") /\ DistinctDates(map) /\ limit >= 0) =>
         /\ Len(r) = Min(limit, Len(map))
         /\ \A i, j \in 1..Len(r) : i < j => r[i].createdAt > r[j].createdAt
         /\ RowSet(r) \subseteq RowSet(map)
         /\ \A t \in RowSet(map) \ RowSet(r), x \in RowSet(r) :
              t.createdAt < x.createdAt
         /\ procs'[k].translations = map]_vars

C14_Witness ==
  \E k \in Processes :
    /\ procs[k].op = "recent"
    /\ procs[k].arg = 2
    /\ Len(procs[k].translations) = 3
    /\ DistinctDates(procs[k].translations)
    /\ procs[k].reply = <<procs[k].translations[3], procs[k].translations[2]>>

\* the ids createTranslation has handed out so far
CreatedIds == 1..(clock.uuid - 1)

\* C19: on the durable back end an Artifact created in one process is
\* returned by getTranslation and getRecentTranslations in every process,
\* also after a restart.
C19_DurableConsistency ==
  [][backend = "durable" =>
       \A k \in Processes :
         /\ (StoreAnswers(k, "get") /\ procs'[k].arg \in CreatedIds) =>
              /\ Len(procs'[k].reply) = 1
              /\ procs'[k].reply[1].id = procs'[k].arg
         /\ (StoreAnswers(k, "recent") /\ procs'[k].arg = DefaultLimit) =>
              {t.id : t \in RowSet(procs'[k].reply)} = CreatedIds]_vars

(* ------------------------------------------------------------------ *)
(* Properties of the pipeline's results and order                       *)
(* ------------------------------------------------------------------ *)
\* C15: every Artifact of a polish run (speech or text) has translatedText
\* equal to originalText, whatever the model returned.
C15_PolishKeepsOriginal ==
  \A i \in 1..Len(translations) :
    translations[i].mode = "polish" =>
      /\ translations[i].translatedText = translations[i].originalText
      /\ translations[i].originalText = pipeline[translations[i].pid].originalText

C15_Witness ==
  \E i \in 1..Len(translations) :
    /\ translations[i].mode = "polish"
    /\ translations[i].originalText = TextHi
    /\ translations[i].polishedText = TextP
    /\ translations[i].translatedText = TextHi

\* C16: a translate with sourceLanguage = targetLanguage that returns,
\* returns translatedText = the input text, whatever translatedText the
\* model sent, and polishedText = the model's polishedText or, when that is
\* missing or empty, the input text.
C16_SameLanguage ==
  \A p \in Pipelines :
    LET q == pipeline[p] IN
    (q.mode = "same" /\ Answered(p) /\ q.run.status = "resolved") =>
      /\ q.run.value.translatedText = q.originalText
      /\ q.run.value.polishedText =
           OrElse(ModelField(q.run.answer.text, "polishedText"), q.originalText)

C16_Witness ==
  \E p \in Pipelines :
    /\ pipeline[p].mode = "same"
    /\ pipeline[p].run.status = "resolved"
    /\ pipeline[p].run.answer.text = ResponseText("object", Obj(TextT, <<>>), <<>>)
    /\ pipeline[p].run.value.translatedText = TextHi
    /\ pipeline[p].run.value.polishedText = TextHi

\* C17: within one request the transform is first called only when the
\* transcription has returned a non-blank transcript, or at once when the
\* text was given; the Artifact is stored only after the transform has
\* returned; a request given text never is in Transcribing and goes
\* Idle -> Transforming -> (storing) -> Persisted -> Done.
C17_StageOrder ==
  [][\A p \in Pipelines :
       LET q == pipeline[p]
           n == pipeline'[p]
       IN
       /\ (n.pc = "Transcribing" /\ q.pc # "Transcribing") =>
            q.pc = "Idle" /\ n.input = "audio"
       /\ (n.pc = "Transforming" /\ q.pc # "Transforming") =>
            \/ /\ q.pc = "Transcribing" /\ n.input = "audio"
               /\ n.run.stage = "transcribe" /\ n.run.status = "resolved"
               /\ ~Blank(n.run.value.text)
               /\ n.originalText = n.run.value.text
            \/ q.pc = "Idle" /\ n.input = "text" /\ n.run.calls = 0
       /\ (n.run.stage = "transform" /\ n.run.calls = 1 /\ q.run.calls # 1) =>
            /\ q.pc = "Transforming"
            /\ q.input = "audio" =>
                 /\ q.run.stage = "transcribe" /\ q.run.status = "resolved"
                 /\ ~Blank(q.originalText)
       /\ (n.pc = "Persisting" /\ q.pc # "Persisting") =>
            /\ q.pc = "Transforming"
            /\ n.run.stage = "transform" /\ n.run.status = "resolved"
            /\ translations' = translations
       /\ (n.pc = "Persisted" /\ q.pc # "Persisted") =>
            /\ q.pc = "Persisting"
            /\ Len(translations') = Len(translations) + 1
       /\ (n.pc = "Done" /\ q.pc # "Done") => q.pc = "Persisted"
       /\ n.input = "text" => n.pc # "Transcribing" /\ n.run.stage # "transcribe"]_vars

C17_Witness ==
  \E p \in Pipelines :
    /\ pipeline[p].pc = "Done"
    /\ pipeline[p].input = "text"
    /\ pipeline[p].run.stage = "transform"
    /\ pipeline[p].run.calls = 1
    /\ Len(translations) = 1

\* storage.getTranslation(id) on the pipeline's store
StoredAt(id) == SelectSeq(translations, LAMBDA t : t.id = id)

Stored(p) == pipeline[p].pc \in {"Persisted", "Done"}

\* C18: two requests run concurrently, both succeeding (on identical input
\* too), leave two Artifacts with distinct ids under every interleaving;
\* neither overwrites the other and getTranslation returns each with the
\* fields of its own request.
C18_NoDeduplication ==
  /\ Len(translations) = Cardinality({p \in Pipelines : Stored(p)})
  /\ \A p \in Pipelines :
       Stored(p) =>
         /\ Len(StoredAt(pipeline[p].artifact)) = 1
         /\ StoredAt(pipeline[p].artifact)[1] =
              createTranslation(pipeline[p], pipeline[p].artifact, p)
         /\ \A o \in Pipelines \ {p} :
              Stored(o) => pipeline[o].artifact # pipeline[p].artifact

C18_Witness ==
  /\ \A p \in Pipelines :
       /\ pipeline[p].pc = "Done"
       /\ pipeline[p].mode = "diff"
       /\ pipeline[p].input = "audio"
       /\ pipeline[p].originalText = TextHi
       /\ pipeline[p].translatedText = TextT
       /\ pipeline[p].polishedText = TextP
  /\ Len(translations) = NumPipelines
  /\ translations[1].pid = NumPipelines

(* ------------------------------------------------------------------ *)
(* Properties of the failure response                                   *)
(* ------------------------------------------------------------------ *)
\* why a request failed: the retry budget ran out on a transient error, or
\* the AI service raised an error the classifier calls fatal
Exhausted(q) ==
  /\ q.pc = "Failed" /\ q.run.status = "rejected" /\ ~q.run.aborted
  /\ q.run.calls = retries + 1
  /\ isRateLimitError(q.run.err)
Fatal(q) ==
  /\ q.pc = "Failed" /\ q.run.status = "rejected"
  /\ ~isRateLimitError(q.run.err)

\* what the caller receives
FailureSignal(q) == [http |-> q.http, body |-> q.body]

\* C20: the response of a request that failed because the retry budget ran
\* out on a transient error is never the same as the response of a request
\* that failed on a fatal upstream error.
C20_FailureSignalDistinguishes ==
  \A p, o \in Pipelines :
    (Exhausted(pipeline[p]) /\ Fatal(pipeline[o])) =>
      FailureSignal(pipeline[p]) # FailureSignal(pipeline[o])

(* ------------------------------------------------------------------ *)
(* Failure of the storage call                                          *)
(* ------------------------------------------------------------------ *)
C21_FailedOnce ==
  \A p \in Pipelines :
    LET q == pipeline[p] IN
    /\ q.stores <= 1
    /\ q.stores = 1 => q.pc \in {"Persisted", "Done", "Failed"}
    /\ StorageThrew(q) =>
         /\ q.http = 500
         /\ q.body = failBody(StorageError)
         /\ q.artifact = 0
         /\ ArtifactsOf(p, translations) = {}
         /\ q.run.stage = "transform"
         /\ q.run.status = "resolved"

C21_ThrowStep ==
  \A p \in Pipelines :
    /\ (pipeline[p].pc = "Persisting" /\ pipeline'[p].pc = "Failed") =>
         /\ pipeline[p].stores = 0
         /\ pipeline'[p].stores = 1
         /\ pipeline'[p].run = pipeline[p].run
         /\ translations' = translations
    /\ StorageThrew(pipeline[p]) => pipeline'[p] = pipeline[p]

\* C21: when the storage call of a request throws, the request ends with a
\* 500 response carrying the error's message, the storage was called exactly
\* once for it, the step leaves the AI stages' run as it was (no further AI
\* call), nothing of the request is in the store, and the request takes no
\* step after that.
C21_PersistenceFailure == []C21_FailedOnce /\ [][C21_ThrowStep]_vars

C21_Witness ==
  \E p \in Pipelines :
    /\ StorageThrew(pipeline[p])
    /\ pipeline[p].run.hist = <<"transient", "ok">>

(* ------------------------------------------------------------------ *)
(* Frame properties of the stores                                       *)
(* ------------------------------------------------------------------ *)
\* every row of the Map old is in new, in its place and with all its fields
Preserved(old, new) ==
  \A i \in 1..Len(old) : i <= Len(new) /\ new[i] = old[i]

\* C22: while a process lives, no createTranslation, getTranslation,
\* getRecentTranslations, createUser, or saved-text save or delete changes a
\* field of an Artifact that createTranslation has stored, moves it or
\* removes it.
C22_ArtifactImmutable ==
  [][\A k \in Processes :
       Preserved(procs[k].translations, procs'[k].translations)]_vars

C22_Witness ==
  /\ Len(procs[1].translations) >= 2
  /\ procs[1].op = "recent"
  /\ procs[1].reply # <<>>
  /\ savedTexts # <<>>
  /\ users # <<>>

(* ------------------------------------------------------------------ *)
(* The time spent waiting                                               *)
(* ------------------------------------------------------------------ *)
RECURSIVE SumSeq(_)
SumSeq(seq) == IF seq = <<>> THEN 0 ELSE Head(seq) + SumSeq(Tail(seq))

\* the run used up its retry budget on transient errors only
BudgetExhausted(r) ==
  /\ r.status = "rejected"
  /\ ~r.aborted
  /\ r.calls = retries + 1
  /\ AllTransient(r.hist, r.calls)

\* C23: a stage under the retry wrapper whose every attempt fails with a
\* transient error has waited 2000, 4000, 8000, 16000 and then 30000 ms (the
\* cap) when its budget is exhausted, 60000 ms in sum; and a run whose
\* attempts so far all failed with a transient error has waited no more.
C23_WorstCaseBackoff ==
  \A p \in Pipelines :
    LET r == pipeline[p].run IN
    /\ (variant # "openai" /\ BudgetExhausted(r)) =>
         /\ r.delays = <<2000, 4000, 8000, 16000, 30000>>
         /\ SumSeq(r.delays) = 60000
    /\ SumSeq(r.delays) <= 60000
    /\ (variant # "openai" /\ r.status = "rejected" /\ ~r.aborted) =>
         BudgetExhausted(r)

C23_Witness ==
  \E p \in Pipelines :
    /\ BudgetExhausted(pipeline[p].run)
    /\ pipeline[p].run.stage = "transform"
    /\ SumSeq(pipeline[p].run.delays) = 60000

(* ------------------------------------------------------------------ *)
\* a request takes a step
PipelineStep == \E p \in Pipelines : pipeline'[p] # pipeline[p]

\* a saved-text request of the given kind is answered in this step
SavedAnswers(op) ==
  \E c \in Clients : session'[c] # session[c] /\ session'[c].op = op

\* C24: no step of a polish or translate request, whatever its outcome,
\* adds, changes or removes a SavedText row; a row is added only in the step
\* that answers a save request with 201, and the rows change in no other step
\* than one answering a save or a delete.
C24_SavedTextsFrame ==
  [][/\ PipelineStep => savedTexts' = savedTexts
     /\ Len(savedTexts') > Len(savedTexts) =>
          /\ SavedAnswers("save")
          /\ \E c \in Clients : session'[c].http = 201
          /\ Preserved(savedTexts, savedTexts')
          /\ Len(savedTexts') = Len(savedTexts) + 1
     /\ savedTexts' # savedTexts =>
          SavedAnswers("save") \/ SavedAnswers("delete")]_vars

C24_Witness ==
  /\ savedTexts # <<>>
  /\ \E p \in Pipelines :
       /\ pipeline[p].pc = "Done"
       /\ pipeline[p].mode = "polish"
       /\ pipeline[p].input = "text"
       /\ Len(translations) = 1

(* ------------------------------------------------------------------ *)
(* Termination                                                          *)
(* ------------------------------------------------------------------ *)
\* a request that passed validation and is in one of its stages
Running(q) == q.pc \in {"Transcribing", "Transforming", "Persisting", "Persisted"}
Terminal(q) == q.pc \in {"Done", "EmptyTranscript", "Failed"}

\* a response was sent exactly when the request is over
C25_OneResponse ==
  \A p \in Pipelines :
    /\ Running(pipeline[p]) => pipeline[p].http = 0
    /\ Terminal(pipeline[p]) => pipeline[p].http \in {200, 400, 500}
    /\ pipeline[p].run.calls <= retries + 1

C25_TerminalStays ==
  \A p \in Pipelines :
    /\ Terminal(pipeline[p]) => pipeline'[p] = pipeline[p]
    /\ pipeline'[p].http # pipeline[p].http =>
         pipeline[p].http = 0 /\ ~Running(pipeline'[p])

\* C25: when every awaited call returns or throws in the end, every request
\* that entered a stage reaches Done, EmptyTranscript or Failed; it stays in
\* the state it reached, its response is sent in the step that ends it and
\* no second one follows; no stage is invoked more than retries + 1 times.
C25_Termination ==
  /\ \A p \in Pipelines : Running(pipeline[p]) ~> Terminal(pipeline[p])
  /\ []C25_OneResponse
  /\ [][C25_TerminalStays]_vars

C25_Witness ==
  \E p \in Pipelines :
    /\ pipeline[p].pc = "Done"
    /\ pipeline[p].input = "audio"
    /\ pipeline[p].run.calls = retries + 1

(* ------------------------------------------------------------------ *)
(* What triggers a retry                                                *)
(* ------------------------------------------------------------------ *)
\* C26: once the AI service has answered a call of a stage (the call itself
\* did not fail), whatever the answer's text and whatever happens when it is
\* parsed and read, the stage is settled: no delay is scheduled and no
\* further call is due.  In every copy.
C26_RetryOnlyOnCallFailure ==
  \A p \in Pipelines :
    LET r == pipeline[p].run IN
    (r.calls >= 1 /\ r.answer.ok) =>
      /\ r.status \in {"resolved", "rejected"}
      /\ Len(r.delays) < r.calls

(* ------------------------------------------------------------------ *)
(* Who owns a saved text                                                *)
(* ------------------------------------------------------------------ *)
\* client c's request of the given kind is answered in this step
AnswersTo(c, ops) == session'[c] # session[c] /\ session'[c].op \in ops

C27_OwnedRows ==
  \A i \in 1..Len(savedTexts) : savedTexts[i].userId \in UserIds

C27_SaveStep ==
  \A c \in Clients :
    /\ (AnswersTo(c, {"save"}) /\ session'[c].http = 201) =>
         /\ session'[c].caller # 0
         /\ savedTexts' = Append(savedTexts, session'[c].body)
         /\ session'[c].body.userId = session'[c].caller
    /\ (AnswersTo(c, {"save", "delete", "apiDelete"}) /\ session'[c].caller = 0) =>
         /\ session'[c].http = 401
         /\ session'[c].pc = "Done"
         /\ savedTexts' = savedTexts

\* C27: the row a save request creates has the userId of the caller's
\* session, whatever userId the body carries; a save or delete request
\* without a session is answered 401 and leaves the saved texts as they were.
C27_OwnershipOnCreation == []C27_OwnedRows /\ [][C27_SaveStep]_vars

C27_Witness ==
  \E c \in Clients :
    /\ session[c].op = "save"
    /\ session[c].http = 201
    /\ session[c].caller = 1
    /\ session[c].bodyUserId = 2
    /\ savedTexts # <<>>
    /\ savedTexts[Len(savedTexts)] = session[c].body

(* ------------------------------------------------------------------ *)
(* Blank input                                                          *)
(* ------------------------------------------------------------------ *)
\* C28: every Artifact in the store has an originalText that is neither
\* empty nor made of white space only, whether it came from speech or from
\* text given directly, and a request whose text or transcript is blank is
\* never in or past the transform stage.
C28_NoBlankOriginal ==
  /\ \A i \in 1..Len(translations) : ~Blank(translations[i].originalText)
  /\ \A p \in Pipelines :
       (pipeline[p].pc \in {"Transforming", "Persisting", "Persisted", "Done"}
          \/ pipeline[p].run.stage = "transform") =>
         ~Blank(pipeline[p].originalText)

(* ------------------------------------------------------------------ *)
(* Two deletes of one saved text                                        *)
(* ------------------------------------------------------------------ *)
\* client c's delete request for row id by caller u was answered with http
DeleteAnswered(c, id, u, http) ==
  /\ session[c].op \in {"delete", "apiDelete"}
  /\ session[c].pc = "Done"
  /\ session[c].id = id
  /\ session[c].caller = u
  /\ session[c].http = http

\* C29: of two delete requests the owner issues for the same SavedText, on
\* either delete path and however their steps interleave, never both report
\* success (ids are not handed out twice, so the second finds nothing).
C29_OneDeleteSucceeds ==
  \A c, d \in Clients, id \in SavedIds, u \in UserIds :
    c # d => ~(DeleteAnswered(c, id, u, 200) /\ DeleteAnswered(d, id, u, 200))

(* ------------------------------------------------------------------ *)
(* The limit of getRecentTranslations                                   *)
(* ------------------------------------------------------------------ *)
Max(a, b) == IF a > b THEN a ELSE b

\* C30: for every integer limit, negative ones too,
\* getRecentTranslations(limit) returns at most max(limit, 0) artifacts and
\* leaves the stored Map and its order as they were; GET /api/translations
\* with no, a zero or a non-numeric limit asks for 10.
C30_LimitHandling ==
  [][\A k \in Processes :
       /\ (StoreAnswers(k, "recent") \/ StoreAnswers(k, "route")) =>
            /\ Len(procs'[k].reply) <= Max(procs'[k].arg, 0)
            /\ procs'[k].translations = procs[k].translations
       /\ (StoreAnswers(k, "route")
            /\ procs'[k].query \in {Undefined, <<>>, <<"0">>, <<"x">>}) =>
            procs'[k].arg = DefaultLimit]_vars

====
